---- MODULE Spec2Model ----
(***************************************************************************)
(* node-scrypt, src/node-boilerplate/scrypt_params.cc: the params()        *)
(* entry point.  Params validates a JavaScript argument list, decides      *)
(* from its shape whether the call is synchronous or asynchronous, and     *)
(* either calls pickparams inline (ParamsSync) or hands a Baton to the     *)
(* libuv thread pool (ParamsWork on a worker thread, ParamsAsyncAfter      *)
(* back on the loop thread).                                               *)
(*                                                                         *)
(* Threads: the loop thread runs JavaScript, Params and ParamsAsyncAfter,  *)
(* one at a time (variable main); worker threads run ParamsWork.           *)
(* Numbers: a JavaScript number / C++ double is the record                 *)
(* [k, m, e] standing for m * 2^e (k = "nan" for NaN), so that values      *)
(* outside the range of a 32-bit int can be written down.  C++ int and     *)
(* size_t values are plain integers.                                       *)
(***************************************************************************)
EXTENDS Integers, Sequences, FiniteSets, TLC

VARIABLES
    calls,      \* one stack frame per invocation of Params, in call order
    main,       \* loop thread: 0 = back in the event loop, i = inside calls[i]
    batons,     \* heap: the Baton objects, in allocation order
    uv,         \* libuv's view of each work request: queued/executing/done/released
    inflight,   \* per work request: the arguments ParamsWork passed to pickparams
    pickLog,    \* history: every call of pickparams, with what it was given
    cbLog,      \* history: every call of a JavaScript callback, with its argv
    fatalLog,   \* history: every node::FatalException report
    heap        \* per work unit: the accesses made to its Baton, its Persistent
                \* callback handle and its uv_work_t, in program order

vars == <<calls, main, batons, uv, inflight, pickLog, cbLog, fatalLog, heap>>

(***************************************************************************)
(* Bounds of the model.                                                    *)
(***************************************************************************)
MaxArgs == 4        \* longest argument list explored
MaxCalls == 2       \* calls of Params made by the program under Spec

(***************************************************************************)
(* JavaScript values.                                                      *)
(***************************************************************************)
Fn(id) == [k |-> "function", m |-> id, e |-> 0]
Num(m, e) == [k |-> "number", m |-> m, e |-> e]
NaN == [k |-> "nan", m |-> 0, e |-> 0]
Str == [k |-> "string", m |-> 0, e |-> 0]
Undefined == [k |-> "undefined"]
Null == [k |-> "null"]

IsFunction(v) == v.k = "function"
IsNumber(v) == v.k \in {"number", "nan"}

\* d <= 0 and d < 0 on doubles; every comparison with NaN is false
LeqZero(d) == d.k = "number" /\ d.m <= 0
LtZero(d) == d.k = "number" /\ d.m < 0
GtZero(d) == d.k = "number" /\ d.m > 0

IntMax == 2147483647
IntMin == (-IntMax) - 1

\* int maxmemArg = <double> (line 118): truncation toward zero when the value
\* fits an int.  For NaN and for a value that does not fit, the conversion is
\* undefined and the result depends on the build: the x86 instruction cvttsd2si
\* yields INT_MIN for all of them; a saturating conversion (ARM) yields 0 for
\* NaN, INT_MAX above the range and INT_MIN below it.
Builds == {"cvttsd2si", "saturating"}

DoubleToInt(d, build) ==
    IF d.k = "nan" THEN (IF build = "cvttsd2si" THEN IntMin ELSE 0)
    ELSE IF d.m = 0 THEN 0
    ELSE IF d.e = 31
         THEN IF d.m = -1 THEN IntMin
              ELSE IF build = "cvttsd2si" \/ d.m < 0 THEN IntMin ELSE IntMax
    ELSE IF d.e = 0 THEN d.m
    ELSE IF d.m >= 0 THEN d.m \div 2 ELSE -((-d.m) \div 2)

\* Integer::New(int32_t) applied to a uint32_t
Uint32ToInt32(u) == IF u > IntMax THEN ((u - IntMax) - IntMax) - 2 ELSE u

maxmem_default == 0
maxmemfrac_default == Num(1, -1)

(***************************************************************************)
(* Inputs.                                                                 *)
(***************************************************************************)
ArgValues ==
    { Fn(1), Fn(2), Str, NaN,
      Num(-3, 31), Num(-1, 0), Num(0, 0), Num(1, -1), Num(3, 0), Num(1, 31) }

ArgLists == UNION { [1..n -> ArgValues] : n \in 0..MaxArgs }

\* the argument lists used when several calls are in flight together:
\* one per shape of call
DispatchArgLists ==
    { <<>>,
      << Fn(1) >>,
      << Num(0, 0), Fn(1) >>,
      << Num(3, 0) >>,
      << Num(3, 0), Num(0, 0), Num(3, 0), Str >>,
      << Num(3, 0), Fn(1) >>,
      << Num(1, -1), Num(-1, 0), Num(3, 0), Fn(2) >>,
      << Num(3, 0), Str, Fn(1) >> }

(***************************************************************************)
(* External collaborators.                                                 *)
(***************************************************************************)
\* pickparams: what a call may report.  result = 0 is success.
PickOutcomes ==
    { [result |-> 0, N |-> 14, r |-> 8, p |-> 1],
      [result |-> 0, N |-> 10, r |-> 8, p |-> 3],
      [result |-> 7, N |-> 0, r |-> 0, p |-> 0] }

\* pickparams(..., &N, &r, &p): the outputs are written on success only
pickparams(out, N, r, p) ==
    IF out.result = 0 THEN out
    ELSE [result |-> out.result, N |-> N, r |-> r, p |-> p]

\* ScryptErrorDescr(result): the message of an error code, kept symbolic
ScryptErrorDescr(result) == [descr |-> "ScryptErrorDescr", code |-> result]

\* the text of a std::string message, in the same shape
Message(text) == [descr |-> text, code |-> 0]

NoException == [type |-> "none", message |-> Message("")]
TypeError(message) == [type |-> "TypeError", message |-> message]
Error(message) == [type |-> "Error", message |-> message]

(***************************************************************************)
(* ValidateArguments (lines 63-129).  st holds the reference parameters    *)
(* message, maxmem, maxmemfrac, maxtime, callbackPosition and the return   *)
(* value rc.                                                               *)
(***************************************************************************)
Fail(st, text) == [st EXCEPT !.rc = 1, !.message = Message(text)]

\* line 75: an async signature
IsCallbackAt(args, i) == i > 0 /\ IsFunction(args[i + 1])

\* line 90 with < in place of <=
MaxtimeRejectedStrict(maxtime) == LtZero(maxtime)

\* line 90
MaxtimeRejected(maxtime) == LeqZero(maxtime)

\* lines 105-107 with < in place of <=
MaxmemfracOfStrict(d) == IF LtZero(d) THEN maxmemfrac_default ELSE d

\* lines 105-107
MaxmemfracOf(d) == IF LeqZero(d) THEN maxmemfrac_default ELSE d

\* lines 118-122
MaxmemOf(d, build) ==
    LET maxmemArg == DoubleToInt(d, build)
    IN  IF maxmemArg < 0 THEN maxmem_default ELSE maxmemArg

\* the switch with a default case that rejects a non-numeric extra argument
ValidatePositionStrict(args, i, st, build) ==
    LET a == args[i + 1]
    IN  CASE i = 0 ->
                IF ~IsNumber(a) THEN Fail(st, "maxtime argument must be a number")
                ELSE IF MaxtimeRejected(a)
                     THEN Fail([st EXCEPT !.maxtime = a], "maxtime must be greater than 0")
                     ELSE [st EXCEPT !.maxtime = a]
          [] i = 1 ->
                IF ~IsNumber(a) THEN Fail(st, "max_memfrac argument must be a number")
                ELSE [st EXCEPT !.maxmemfrac = MaxmemfracOf(a)]
          [] i = 2 ->
                IF ~IsNumber(a) THEN Fail(st, "maxmem argument must be a number")
                ELSE [st EXCEPT !.maxmem = MaxmemOf(a, build)]
          [] OTHER ->
                IF ~IsNumber(a) THEN Fail(st, "argument must be a number") ELSE st

\* lines 80-125: the switch on the position i
ValidatePosition(args, i, st, build) ==
    LET a == args[i + 1]
    IN  CASE i = 0 ->
                IF ~IsNumber(a) THEN Fail(st, "maxtime argument must be a number")
                ELSE IF MaxtimeRejected(a)
                     THEN Fail([st EXCEPT !.maxtime = a], "maxtime must be greater than 0")
                     ELSE [st EXCEPT !.maxtime = a]
          [] i = 1 ->
                IF ~IsNumber(a) THEN Fail(st, "max_memfrac argument must be a number")
                ELSE [st EXCEPT !.maxmemfrac = MaxmemfracOf(a)]
          [] i = 2 ->
                IF ~IsNumber(a) THEN Fail(st, "maxmem argument must be a number")
                ELSE [st EXCEPT !.maxmem = MaxmemOf(a, build)]
          [] OTHER -> st

\* the loop with the return 0 of line 77 missing: the callable's position is
\* recorded and the scan goes on into the switch
RECURSIVE ValidateLoopNoReturn(_, _, _, _)
ValidateLoopNoReturn(args, i, st, build) ==
    IF i >= Len(args) THEN st
    ELSE LET marked == IF IsCallbackAt(args, i)
                       THEN [st EXCEPT !.callbackPosition = i] ELSE st
             next == ValidatePosition(args, i, marked, build)
         IN  IF next.rc # 0 THEN next
             ELSE ValidateLoopNoReturn(args, i + 1, next, build)

\* lines 74-128: the loop over the positions
RECURSIVE ValidateLoop(_, _, _, _)
ValidateLoop(args, i, st, build) ==
    IF i >= Len(args) THEN st
    ELSE IF IsCallbackAt(args, i) THEN [st EXCEPT !.callbackPosition = i]
    ELSE LET next == ValidatePosition(args, i, st, build)
         IN  IF next.rc # 0 THEN next ELSE ValidateLoop(args, i + 1, next, build)

\* ValidateArguments with the test of lines 64-67 missing
ValidateArgumentsNoLengthTest(args, st, build) ==
    IF Len(args) > 0 /\ IsFunction(args[1])
    THEN Fail(st, "Wrong number of arguments: At least one argument is needed before the callback - the maxtime")
    ELSE ValidateLoop(args, 0, st, build)

ValidateArguments(args, st, build) ==
    IF Len(args) = 0
    THEN Fail(st, "Wrong number of arguments: At least one argument is needed - the maxtime")
    ELSE IF Len(args) > 0 /\ IsFunction(args[1])
    THEN Fail(st, "Wrong number of arguments: At least one argument is needed before the callback - the maxtime")
    ELSE ValidateLoop(args, 0, st, build)

\* lines 137-138 with r and p stored under each other's key
createJSONObjectSwapped(N, r, p) ==
    [k |-> "object", N |-> N, r |-> Uint32ToInt32(p), p |-> Uint32ToInt32(r)]

\* lines 134-139
createJSONObject(N, r, p) ==
    [k |-> "object", N |-> N, r |-> Uint32ToInt32(r), p |-> Uint32ToInt32(p)]

(***************************************************************************)
(* The heap objects of a work unit and the accesses the three functions    *)
(* make to them, in the order of the statements.  ctx is the function      *)
(* that makes the access, obj one of "baton" (the Baton), "callback" (the  *)
(* Persistent handle held in baton->callback) and "req" (the uv_work_t).   *)
(***************************************************************************)
Access(ctx, op, obj) == [ctx |-> ctx, op |-> op, obj |-> obj]

\* lines 245-253: new Baton(), its three request fields, the Persistent
\* handle stored in it, new uv_work_t(), req->data
ParamsAccesses ==
    << Access("Params", "new", "baton"),
       Access("Params", "write", "baton"),
       Access("Params", "new", "callback"),
       Access("Params", "write", "baton"),
       Access("Params", "new", "req"),
       Access("Params", "write", "req") >>

\* lines 166-167: req->data, then the arguments of pickparams
ParamsWorkCallAccesses ==
    << Access("ParamsWork", "read", "req"),
       Access("ParamsWork", "read", "baton") >>

\* line 167: &baton->N, &baton->r, &baton->p and baton->result are written
ParamsWorkReturnAccesses ==
    << Access("ParamsWork", "write", "baton") >>

\* the clean-up with delete baton moved before the call of the callback
ParamsAsyncAfterAccessesEarlyDelete ==
    << Access("ParamsAsyncAfter", "read", "req"),
       Access("ParamsAsyncAfter", "read", "baton"),
       Access("ParamsAsyncAfter", "delete", "baton"),
       Access("ParamsAsyncAfter", "read", "baton"),
       Access("ParamsAsyncAfter", "call", "callback"),
       Access("ParamsAsyncAfter", "read", "baton"),
       Access("ParamsAsyncAfter", "Dispose", "callback"),
       Access("ParamsAsyncAfter", "delete", "req") >>

\* lines 175-212: req->data; baton->result, N, r, p; baton->callback->Call;
\* baton->callback.Dispose(); delete baton; delete req.  The same on the
\* error path, the success path and when the callback raised.
ParamsAsyncAfterAccesses ==
    << Access("ParamsAsyncAfter", "read", "req"),
       Access("ParamsAsyncAfter", "read", "baton"),
       Access("ParamsAsyncAfter", "read", "baton"),
       Access("ParamsAsyncAfter", "call", "callback"),
       Access("ParamsAsyncAfter", "read", "baton"),
       Access("ParamsAsyncAfter", "Dispose", "callback"),
       Access("ParamsAsyncAfter", "delete", "baton"),
       Access("ParamsAsyncAfter", "delete", "req") >>

(***************************************************************************)
(* Params (lines 220-262), in the steps the loop thread takes.             *)
(***************************************************************************)
\* lines 221-226: the locals of a fresh call
Frame(args) ==
    [ args |-> args, pc |-> "validate",
      rc |-> 0, message |-> Message(""),
      maxmem |-> maxmem_default, maxmemfrac |-> maxmemfrac_default,
      maxtime |-> Num(0, 0), callbackPosition |-> -1,
      exception |-> NoException, returned |-> Undefined, baton |-> 0 ]

\* the reference parameters of ValidateArguments, taken from a frame
Locals(f) ==
    [ rc |-> f.rc, message |-> f.message, maxmem |-> f.maxmem,
      maxmemfrac |-> f.maxmemfrac, maxtime |-> f.maxtime,
      callbackPosition |-> f.callbackPosition ]

\* JavaScript calls params(args...) with one of the lists: line 220
ParamsCall(lists, limit) ==
    /\ main = 0
    /\ Len(calls) < limit
    /\ \E args \in lists : calls' = Append(calls, Frame(args))
    /\ main' = Len(calls) + 1
    /\ UNCHANGED <<batons, uv, inflight, pickLog, cbLog, fatalLog, heap>>

\* lines 228-234: validate, and throw when validation fails
ParamsValidate(build) ==
    /\ main # 0
    /\ calls[main].pc = "validate"
    /\ LET f == calls[main]
           v == ValidateArguments(f.args, Locals(f), build)
           g == [f EXCEPT !.rc = v.rc, !.message = v.message, !.maxmem = v.maxmem,
                          !.maxmemfrac = v.maxmemfrac, !.maxtime = v.maxtime,
                          !.callbackPosition = v.callbackPosition]
       IN  calls' = [calls EXCEPT ![main] =
                IF v.rc # 0
                THEN [g EXCEPT !.exception = TypeError(v.message),
                               !.returned = Undefined, !.pc = "return"]
                ELSE [g EXCEPT !.pc = "dispatch"]]
    /\ UNCHANGED <<main, batons, uv, inflight, pickLog, cbLog, fatalLog, heap>>

\* line 236: the function type
IsSynchronous(callbackPosition) == callbackPosition = -1

\* ParamsSync with the test of line 150 missing: the structure is returned
\* whatever pickparams reported
ParamsSyncNoThrow(out) ==
    LET f == calls[main]
        res == pickparams(out, 0, 0, 0)
    IN  /\ pickLog' = Append(pickLog,
                [ by |-> "ParamsSync", call |-> main, baton |-> 0,
                  maxmem |-> f.maxmem, maxmemfrac |-> f.maxmemfrac,
                  maxtime |-> f.maxtime, out |-> res ])
        /\ calls' = [calls EXCEPT ![main] =
                [f EXCEPT !.returned = createJSONObject(res.N, res.r, res.p),
                          !.pc = "return"]]
        /\ UNCHANGED <<main, batons, uv, inflight, cbLog, fatalLog, heap>>

\* ParamsSync (lines 144-159), called at line 238
ParamsSync(out) ==
    LET f == calls[main]
        res == pickparams(out, 0, 0, 0)
    IN  /\ pickLog' = Append(pickLog,
                [ by |-> "ParamsSync", call |-> main, baton |-> 0,
                  maxmem |-> f.maxmem, maxmemfrac |-> f.maxmemfrac,
                  maxtime |-> f.maxtime, out |-> res ])
        /\ calls' = [calls EXCEPT ![main] =
                IF res.result # 0
                THEN [f EXCEPT !.exception = TypeError(ScryptErrorDescr(res.result)),
                               !.returned = Undefined, !.pc = "return"]
                ELSE [f EXCEPT !.returned = createJSONObject(res.N, res.r, res.p),
                               !.pc = "return"]]
        /\ UNCHANGED <<main, batons, uv, inflight, cbLog, fatalLog, heap>>

\* lines 245-250: new Baton() is value-initialised, then filled in
NewBaton(f) ==
    [ callback |-> f.args[f.callbackPosition + 1].m, disposed |-> FALSE,
      freed |-> FALSE, result |-> 0,
      maxmem |-> f.maxmem, maxmemfrac |-> f.maxmemfrac, maxtime |-> f.maxtime,
      N |-> 0, r |-> 0, p |-> 0 ]

NoArguments == [maxmem |-> 0, maxmemfrac |-> Num(0, 0), maxtime |-> Num(0, 0)]

\* the asynchronous branch calling the work function itself before it queues
\* the request, so that only the completion is left to libuv
ParamsAsyncWorksInline ==
    LET f == calls[main]
        nb == NewBaton(f)
    IN  \E out \in PickOutcomes :
            LET res == pickparams(out, nb.N, nb.r, nb.p)
            IN  /\ batons' = Append(batons,
                        [nb EXCEPT !.result = res.result, !.N = res.N,
                                   !.r = res.r, !.p = res.p])
                /\ uv' = Append(uv, "done")
                /\ inflight' = Append(inflight,
                        [ maxmem |-> nb.maxmem, maxmemfrac |-> nb.maxmemfrac,
                          maxtime |-> nb.maxtime ])
                /\ pickLog' = Append(pickLog,
                        [ by |-> "ParamsWork", call |-> 0, baton |-> Len(batons) + 1,
                          maxmem |-> nb.maxmem, maxmemfrac |-> nb.maxmemfrac,
                          maxtime |-> nb.maxtime, out |-> res ])
                /\ calls' = [calls EXCEPT ![main] =
                        [f EXCEPT !.baton = Len(batons) + 1, !.returned = Undefined,
                                  !.pc = "return"]]
                /\ heap' = Append(heap, ParamsAccesses \o ParamsWorkCallAccesses
                                            \o ParamsWorkReturnAccesses)
                /\ UNCHANGED <<main, cbLog, fatalLog>>

\* the asynchronous branch with the uv_queue_work of line 256 missing: the
\* work unit is built and libuv is never told of it
ParamsAsyncNotQueued ==
    LET f == calls[main]
    IN  /\ batons' = Append(batons, NewBaton(f))
        /\ uv' = Append(uv, "idle")
        /\ inflight' = Append(inflight, NoArguments)
        /\ calls' = [calls EXCEPT ![main] =
                [f EXCEPT !.baton = Len(batons) + 1, !.returned = Undefined,
                          !.pc = "return"]]
        /\ heap' = Append(heap, ParamsAccesses)
        /\ UNCHANGED <<main, pickLog, cbLog, fatalLog>>

\* lines 240-260: the asynchronous branch up to uv_queue_work
ParamsAsync ==
    LET f == calls[main]
    IN  /\ batons' = Append(batons, NewBaton(f))
        /\ uv' = Append(uv, "queued")
        /\ inflight' = Append(inflight, NoArguments)
        /\ calls' = [calls EXCEPT ![main] =
                [f EXCEPT !.baton = Len(batons) + 1, !.returned = Undefined,
                          !.pc = "return"]]
        /\ heap' = Append(heap, ParamsAccesses)
        /\ UNCHANGED <<main, pickLog, cbLog, fatalLog>>

\* lines 236-260
ParamsDispatch ==
    /\ main # 0
    /\ calls[main].pc = "dispatch"
    /\ IF IsSynchronous(calls[main].callbackPosition)
       THEN \E out \in PickOutcomes : ParamsSync(out)
       ELSE ParamsAsync

\* the return with a read of the Baton added after uv_queue_work (a look at
\* baton->result between lines 256 and 260)
ParamsReturnReadsBaton ==
    /\ main # 0
    /\ calls[main].pc = "return"
    /\ calls' = [calls EXCEPT ![main].pc = "done"]
    /\ main' = 0
    /\ heap' = IF calls[main].baton # 0
               THEN [heap EXCEPT ![calls[main].baton] =
                        @ \o << Access("Params", "read", "baton") >>]
               ELSE heap
    /\ UNCHANGED <<batons, uv, inflight, pickLog, cbLog, fatalLog>>

\* return scope.Close(...): control goes back to the JavaScript caller
ParamsReturn ==
    /\ main # 0
    /\ calls[main].pc = "return"
    /\ calls' = [calls EXCEPT ![main].pc = "done"]
    /\ main' = 0
    /\ UNCHANGED <<batons, uv, inflight, pickLog, cbLog, fatalLog, heap>>

(***************************************************************************)
(* ParamsWork (lines 165-168), on a worker thread: the call of pickparams  *)
(* and its return.                                                         *)
(***************************************************************************)
ParamsWorkCall(b) ==
    /\ uv[b] = "queued"
    /\ uv' = [uv EXCEPT ![b] = "executing"]
    /\ inflight' = [inflight EXCEPT ![b] =
            [ maxmem |-> batons[b].maxmem, maxmemfrac |-> batons[b].maxmemfrac,
              maxtime |-> batons[b].maxtime ]]
    /\ heap' = [heap EXCEPT ![b] = @ \o ParamsWorkCallAccesses]
    /\ UNCHANGED <<calls, main, batons, pickLog, cbLog, fatalLog>>

\* ParamsWork storing the return value of pickparams in baton->maxtime as
\* well as in baton->result
ParamsWorkReturnClobbers(b, out) ==
    /\ uv[b] = "executing"
    /\ LET res == pickparams(out, batons[b].N, batons[b].r, batons[b].p)
       IN  /\ batons' = [batons EXCEPT ![b].result = res.result, ![b].N = res.N,
                                       ![b].r = res.r, ![b].p = res.p,
                                       ![b].maxtime = Num(res.result, 0)]
           /\ pickLog' = Append(pickLog,
                [ by |-> "ParamsWork", call |-> 0, baton |-> b,
                  maxmem |-> inflight[b].maxmem,
                  maxmemfrac |-> inflight[b].maxmemfrac,
                  maxtime |-> inflight[b].maxtime, out |-> res ])
    /\ uv' = [uv EXCEPT ![b] = "done"]
    /\ heap' = [heap EXCEPT ![b] = @ \o ParamsWorkReturnAccesses]
    /\ UNCHANGED <<calls, main, inflight, cbLog, fatalLog>>

ParamsWorkReturn(b, out) ==
    /\ uv[b] = "executing"
    /\ LET res == pickparams(out, batons[b].N, batons[b].r, batons[b].p)
       IN  /\ batons' = [batons EXCEPT ![b].result = res.result, ![b].N = res.N,
                                       ![b].r = res.r, ![b].p = res.p]
           /\ pickLog' = Append(pickLog,
                [ by |-> "ParamsWork", call |-> 0, baton |-> b,
                  maxmem |-> inflight[b].maxmem,
                  maxmemfrac |-> inflight[b].maxmemfrac,
                  maxtime |-> inflight[b].maxtime, out |-> res ])
    /\ uv' = [uv EXCEPT ![b] = "done"]
    /\ heap' = [heap EXCEPT ![b] = @ \o ParamsWorkReturnAccesses]
    /\ UNCHANGED <<calls, main, inflight, cbLog, fatalLog>>

(***************************************************************************)
(* ParamsAsyncAfter (lines 173-214), on the loop thread.  throws: whether  *)
(* the JavaScript callback raises.                                         *)
(***************************************************************************)
\* CallbackArgv with the null error slot of the success call left out
CallbackArgvNoNull(baton) ==
    IF baton.result # 0
    THEN << Error(ScryptErrorDescr(baton.result)) >>
    ELSE << createJSONObject(baton.N, baton.r, baton.p) >>

\* ParamsAsyncAfter with the else of line 193 missing: after the error call
\* the success call is made too
ParamsAsyncAfterFallsThrough(b, throws) ==
    /\ main = 0
    /\ uv[b] = "done"
    /\ LET first == [ fn |-> batons[b].callback,
                      argv |-> << Error(ScryptErrorDescr(batons[b].result)) >>,
                      baton |-> b, during |-> main, raised |-> throws ]
           second == [ fn |-> batons[b].callback,
                       argv |-> << Null, createJSONObject(batons[b].N, batons[b].r,
                                                          batons[b].p) >>,
                       baton |-> b, during |-> main, raised |-> throws ]
       IN  cbLog' = IF batons[b].result # 0
                    THEN Append(Append(cbLog, first), second)
                    ELSE Append(cbLog, second)
    /\ fatalLog' = IF throws THEN Append(fatalLog, [baton |-> b]) ELSE fatalLog
    /\ batons' = [batons EXCEPT ![b].disposed = TRUE, ![b].freed = TRUE]
    /\ uv' = [uv EXCEPT ![b] = "released"]
    /\ heap' = [heap EXCEPT ![b] = @ \o ParamsAsyncAfterAccesses]
    /\ UNCHANGED <<calls, main, inflight, pickLog>>

\* ParamsAsyncAfter with the tests of lines 190-192 and 205-207 missing: what
\* the callback raised is caught by the TryCatch and dropped
ParamsAsyncAfterSwallows(b, throws) ==
    /\ main = 0
    /\ uv[b] = "done"
    /\ cbLog' = Append(cbLog,
            [ fn |-> batons[b].callback,
              argv |-> IF batons[b].result # 0
                       THEN << Error(ScryptErrorDescr(batons[b].result)) >>
                       ELSE << Null, createJSONObject(batons[b].N, batons[b].r,
                                                      batons[b].p) >>,
              baton |-> b, during |-> main, raised |-> throws ])
    /\ batons' = [batons EXCEPT ![b].disposed = TRUE, ![b].freed = TRUE]
    /\ uv' = [uv EXCEPT ![b] = "released"]
    /\ heap' = [heap EXCEPT ![b] = @ \o ParamsAsyncAfterAccesses]
    /\ UNCHANGED <<calls, main, inflight, pickLog, fatalLog>>

\* ParamsAsyncAfter reading the Baton made last instead of req->data, as if
\* the Baton were one object shared by all the requests
ParamsAsyncAfterSharedBaton(b, throws) ==
    /\ main = 0
    /\ uv[b] = "done"
    /\ LET shared == batons[Len(batons)]
       IN  cbLog' = Append(cbLog,
            [ fn |-> shared.callback,
              argv |-> IF shared.result # 0
                       THEN << Error(ScryptErrorDescr(shared.result)) >>
                       ELSE << Null, createJSONObject(shared.N, shared.r, shared.p) >>,
              baton |-> b, during |-> main, raised |-> throws ])
    /\ fatalLog' = IF throws THEN Append(fatalLog, [baton |-> b]) ELSE fatalLog
    /\ batons' = [batons EXCEPT ![b].disposed = TRUE, ![b].freed = TRUE]
    /\ uv' = [uv EXCEPT ![b] = "released"]
    /\ heap' = [heap EXCEPT ![b] = @ \o ParamsAsyncAfterAccesses]
    /\ UNCHANGED <<calls, main, inflight, pickLog>>

\* lines 177-182 and 193-201: the argv of the callback
CallbackArgv(baton) ==
    IF baton.result # 0
    THEN << Error(ScryptErrorDescr(baton.result)) >>
    ELSE << Null, createJSONObject(baton.N, baton.r, baton.p) >>

ParamsAsyncAfter(b, throws) ==
    /\ main = 0
    /\ uv[b] = "done"
    /\ cbLog' = Append(cbLog,
            [ fn |-> batons[b].callback, argv |-> CallbackArgv(batons[b]),
              baton |-> b, during |-> main, raised |-> throws ])
    /\ fatalLog' = IF throws THEN Append(fatalLog, [baton |-> b]) ELSE fatalLog
    /\ batons' = [batons EXCEPT ![b].disposed = TRUE, ![b].freed = TRUE]
    /\ uv' = [uv EXCEPT ![b] = "released"]
    /\ heap' = [heap EXCEPT ![b] = @ \o ParamsAsyncAfterAccesses]
    /\ UNCHANGED <<calls, main, inflight, pickLog>>

(***************************************************************************)
(* Specifications.                                                         *)
(***************************************************************************)
Init ==
    /\ calls = <<>>
    /\ main = 0
    /\ batons = <<>>
    /\ uv = <<>>
    /\ inflight = <<>>
    /\ pickLog = <<>>
    /\ cbLog = <<>>
    /\ fatalLog = <<>>
    /\ heap = <<>>

Steps ==
    \/ \E build \in Builds : ParamsValidate(build)
    \/ ParamsDispatch
    \/ ParamsReturn
    \/ \E b \in DOMAIN batons : ParamsWorkCall(b)
    \/ \E b \in DOMAIN batons : \E out \in PickOutcomes : ParamsWorkReturn(b, out)
    \/ \E b \in DOMAIN batons : \E throws \in BOOLEAN : ParamsAsyncAfter(b, throws)

\* a program that makes up to MaxCalls calls, several of them in flight together
Next ==
    \/ ParamsCall(DispatchArgLists, MaxCalls)
    \/ Steps

Spec == Init /\ [][Next]_vars

\* a program that makes one call, with any argument list of up to MaxArgs
\* values.  Params keeps nothing from one call to the next (its only globals
\* are the two default constants), so what a call does with its argument list
\* is the same whichever call of the program it is.
NextOneCall ==
    \/ ParamsCall(ArgLists, 1)
    \/ Steps

SpecOneCall == Init /\ [][NextOneCall]_vars

\* Scheduling: a call of Params runs to its return; libuv's thread pool takes
\* up every queued request and pickparams returns; the event loop runs the
\* completion of every finished request once the loop thread is free.
Fairness ==
    /\ WF_vars(\E build \in Builds : ParamsValidate(build))
    /\ WF_vars(ParamsDispatch)
    /\ WF_vars(ParamsReturn)
    /\ \A b \in 1..MaxCalls :
        /\ WF_vars(b \in DOMAIN batons /\ ParamsWorkCall(b))
        /\ WF_vars(b \in DOMAIN batons
                   /\ \E out \in PickOutcomes : ParamsWorkReturn(b, out))
        /\ WF_vars(b \in DOMAIN batons
                   /\ \E throws \in BOOLEAN : ParamsAsyncAfter(b, throws))

FairSpec == Spec /\ Fairness

FairSpecOneCall == SpecOneCall /\ Fairness

(***************************************************************************)
(* Observations used by the properties.                                    *)
(***************************************************************************)
\* 1-based place of the first callable after the first argument, 0 if none
FirstCallable(args) ==
    LET at == { j \in 2..Len(args) : IsFunction(args[j]) }
    IN  IF at = {} THEN 0 ELSE CHOOSE j \in at : \A k \in at : j <= k

\* the calls of a callback made on behalf of work unit b
Invocations(b) == { k \in DOMAIN cbLog : cbLog[k].baton = b }

\* the calls of pickparams made inside call i, and on behalf of work unit b
InlinePicks(i) == { k \in DOMAIN pickLog : pickLog[k].call = i }
WorkerPicks(b) == { k \in DOMAIN pickLog : pickLog[k].baton = b }

\* what a callback is to receive for an outcome of pickparams
Encoded(out) ==
    IF out.result = 0
    THEN << Null, [k |-> "object", N |-> out.N, r |-> out.r, p |-> out.p] >>
    ELSE << Error(ScryptErrorDescr(out.result)) >>

Validated(f) == f.pc \in {"dispatch", "return", "done"} /\ f.rc = 0
Dispatched(f) == f.pc \in {"return", "done"} /\ f.rc = 0

(***************************************************************************)
(* C1 as stated: for every argument list with a callable after the first   *)
(* position, the call returns at once without calling pickparams inline,   *)
(* and the callable is called exactly once, later, with pickparams's       *)
(* outcome.  Stated here for the lists whose first argument is not itself  *)
(* a callable, and only as far as the call itself: it returns without an   *)
(* exception and leaves a work unit for the callable.                      *)
(***************************************************************************)
C1_AsStated ==
    \A i \in DOMAIN calls :
        (/\ FirstCallable(calls[i].args) # 0
         /\ ~IsFunction(calls[i].args[1])
         /\ calls[i].pc = "done")
            => /\ calls[i].exception = NoException
               /\ calls[i].baton # 0

\* in one state: a validated call with a callable after the first position
\* has returned undefined at once and called pickparams nowhere inline; its
\* first such callable has been called at most once, from the completion step
\* only, after the call returned, once when the work unit is released, with
\* (null, {N, r, p}) or one error argument as pickparams reported
C1_AsyncSafe ==
    \A i \in DOMAIN calls :
        LET f == calls[i]
            c == FirstCallable(f.args)
            b == f.baton
        IN  (c # 0 /\ Dispatched(f))
            => /\ f.exception = NoException
               /\ f.returned = Undefined
               /\ InlinePicks(i) = {}
               /\ b \in DOMAIN batons
               /\ Cardinality(Invocations(b)) <= 1
               /\ uv[b] = "released" => Cardinality(Invocations(b)) = 1
               /\ \A k \in Invocations(b) :
                    /\ cbLog[k].fn = f.args[c].m
                    /\ cbLog[k].during = 0
                    /\ f.pc = "done"
                    /\ Cardinality(WorkerPicks(b)) = 1
                    /\ \A n \in WorkerPicks(b) :
                            cbLog[k].argv = Encoded(pickLog[n].out)
               /\ \A k \in DOMAIN cbLog : cbLog[k].baton = b

\* from some point on, every such call has had its callable called once
C1_AsyncLive ==
    <>[](\A i \in DOMAIN calls :
            (FirstCallable(calls[i].args) # 0 /\ Dispatched(calls[i]))
                => /\ calls[i].baton \in DOMAIN batons
                   /\ uv[calls[i].baton] = "released"
                   /\ Cardinality(Invocations(calls[i].baton)) = 1)

(***************************************************************************)
(* C1, amended: for every argument list that passes validation and has a   *)
(* callable after the first position, the call returns undefined at once   *)
(* without calling pickparams inline, and the first such callable is       *)
(* called exactly once, later: from the completion step only, after the    *)
(* call has returned, with (null, {N, r, p}) or with one error argument,   *)
(* as pickparams reported.                                                 *)
(***************************************************************************)
C1_Async == [](C1_AsyncSafe) /\ C1_AsyncLive

C1_Witness ==
    \E i \in DOMAIN calls :
        /\ FirstCallable(calls[i].args) = 3
        /\ calls[i].baton # 0
        /\ uv[calls[i].baton] = "released"
        /\ Len(cbLog) = 1
        /\ Len(cbLog[1].argv) = 2

(***************************************************************************)
(* C2.  Every work unit's callback has been called at most once in every   *)
(* state, and exactly once when the unit has been released, whether        *)
(* pickparams succeeded or failed.                                         *)
(***************************************************************************)
C2_OnceOnly ==
    \A b \in DOMAIN batons :
        /\ Cardinality(Invocations(b)) <= 1
        /\ batons[b].freed => Cardinality(Invocations(b)) = 1
        /\ uv[b] = "released" => batons[b].freed

C2_Witness ==
    \E b1, b2 \in DOMAIN batons :
        /\ batons[b1].freed /\ batons[b1].result # 0
        /\ batons[b2].freed /\ batons[b2].result = 0

\* the number of positional parameters: the arguments before the first callable
Positional(args) ==
    IF FirstCallable(args) = 0 THEN Len(args) ELSE FirstCallable(args) - 1

\* the argument lists the description calls invalid
Invalid(args) ==
    \/ Len(args) = 0
    \/ IsFunction(args[1])
    \/ ~IsNumber(args[1])
    \/ LeqZero(args[1])
    \/ Positional(args) >= 2 /\ ~IsNumber(args[2])
    \/ Positional(args) >= 3 /\ ~IsNumber(args[3])

\* the call that created work unit b
CallOf(b) == CHOOSE i \in DOMAIN calls : calls[i].baton = b

(***************************************************************************)
(* C3.  Every validation failure (no argument, a callable first, a         *)
(* non-numeric maxtime, maxmemfrac or maxmem before the first callable,    *)
(* maxtime <= 0) is thrown by the call itself, with or without a callable  *)
(* in the list: the call never reaches the dispatch, pickparams is never   *)
(* called, no work unit is made or queued, and no callback is called.      *)
(***************************************************************************)
C3_ValidationIsSynchronous ==
    \A i \in DOMAIN calls :
        LET f == calls[i]
        IN  (Invalid(f.args) /\ f.pc # "validate")
            => /\ f.pc \in {"return", "done"}
               /\ f.exception.type = "TypeError"
               /\ f.exception.message = f.message
               /\ f.message.code = 0
               /\ f.returned = Undefined
               /\ f.baton = 0
               /\ batons = <<>> /\ uv = <<>>
               /\ pickLog = <<>>
               /\ cbLog = <<>>

C3_Witness ==
    \E i \in DOMAIN calls :
        /\ calls[i].pc = "done"
        /\ Len(calls[i].args) = 4
        /\ GtZero(calls[i].args[1])
        /\ GtZero(calls[i].args[2])
        /\ calls[i].args[3] = Str
        /\ IsFunction(calls[i].args[4])
        /\ calls[i].exception.type = "TypeError"

(***************************************************************************)
(* C4.  A call with maxtime > 0, numeric maxmemfrac and maxmem where       *)
(* present, and no callable in the list calls pickparams once, inline,     *)
(* with the request the validation produced (maxtime as given, a positive  *)
(* maxmemfrac and a small whole maxmem as given), and returns {N, r, p}    *)
(* holding exactly the three values pickparams reported; when pickparams   *)
(* reports an error the call throws and returns no structure.              *)
(***************************************************************************)
ValidSync(args) ==
    /\ Len(args) >= 1
    /\ \A j \in 1..Len(args) : ~IsFunction(args[j])
    /\ GtZero(args[1])
    /\ Len(args) >= 2 => IsNumber(args[2])
    /\ Len(args) >= 3 => IsNumber(args[3])

C5_Defaults ==
    /\ \A n \in DOMAIN pickLog :
        LET q == pickLog[n]
            i == IF q.call # 0 THEN q.call ELSE CallOf(q.baton)
            args == calls[i].args
        IN  /\ (Positional(args) < 2 \/ LeqZero(args[2]))
                    => q.maxmemfrac = Num(1, -1)
            /\ (Positional(args) < 3 \/ LtZero(args[3])) => q.maxmem = 0
    /\ \A i \in DOMAIN calls :
        LET f == calls[i]
        IN  /\ f.rc # 0 => Invalid(f.args)
            /\ (~Invalid(f.args) /\ f.pc \in {"return", "done"}) =>
                    IF FirstCallable(f.args) = 0
                    THEN InlinePicks(i) # {}
                    ELSE /\ f.baton \in DOMAIN batons
                         /\ uv[f.baton] \in {"done", "released"}
                                => WorkerPicks(f.baton) # {}

C5_Witness ==
    \E n \in DOMAIN pickLog :
        /\ pickLog[n].by = "ParamsWork"
        /\ LET args == calls[CallOf(pickLog[n].baton)].args
           IN  /\ FirstCallable(args) = 4
               /\ args[2] = Num(0, 0)
               /\ args[3] = Num(-1, 0)
        /\ pickLog[n].maxmemfrac = Num(1, -1)
        /\ pickLog[n].maxmem = 0

(***************************************************************************)
(* C6.  A failure reported by pickparams reaches the caller the way the    *)
(* call was classified and no other: called inline (a call with no         *)
(* callable), it is thrown by the call, nothing is returned and no         *)
(* callback is called for that call; called on a worker thread, the call   *)
(* has thrown nothing and the callback is called at most once, once when   *)
(* the work unit is released, with the error as its only argument.         *)
(***************************************************************************)
C6_FailureConvention ==
    \A n \in DOMAIN pickLog :
        LET q == pickLog[n]
        IN  q.out.result # 0 =>
                IF q.by = "ParamsSync"
                THEN LET f == calls[q.call]
                     IN  /\ f.callbackPosition = -1
                         /\ f.exception = TypeError(ScryptErrorDescr(q.out.result))
                         /\ f.returned = Undefined
                         /\ f.baton = 0
                         /\ \A k \in DOMAIN cbLog : CallOf(cbLog[k].baton) # q.call
                ELSE LET b == q.baton
                         f == calls[CallOf(b)]
                     IN  /\ f.callbackPosition # -1
                         /\ f.exception = NoException
                         /\ f.returned = Undefined
                         /\ InlinePicks(CallOf(b)) = {}
                         /\ Cardinality(Invocations(b)) <= 1
                         /\ uv[b] = "released" => Cardinality(Invocations(b)) = 1
                         /\ \A k \in Invocations(b) :
                                cbLog[k].argv = << Error(ScryptErrorDescr(q.out.result)) >>

C6_Witness ==
    /\ \E i \in DOMAIN calls :
        /\ calls[i].pc = "done"
        /\ calls[i].callbackPosition = -1
        /\ calls[i].exception.message.code # 0
    /\ \E b \in DOMAIN batons :
        /\ uv[b] = "released"
        /\ batons[b].result # 0
        /\ Invocations(b) # {}

(***************************************************************************)
(* C7.  Where the first callable after position 0 stands at position c,    *)
(* the classification is that of the list cut after the callable: a list   *)
(* that is valid up to the callable is accepted, c is the callback         *)
(* position (the call is asynchronous), the parameters whose positions     *)
(* are at or after c keep their defaults, and the request, the exception,  *)
(* the work unit and the callback called do not depend on what follows     *)
(* the callable.                                                           *)
(***************************************************************************)
C7_ScanStopsAtCallable ==
    \A i \in DOMAIN calls :
        LET f == calls[i]
            c == FirstCallable(f.args)
            prefix == SubSeq(f.args, 1, c)
        IN  (c # 0 /\ f.pc # "validate")
            => /\ \E build \in Builds :
                    Locals(f) = ValidateArguments(prefix, Locals(Frame(prefix)), build)
               /\ f.rc = (IF Invalid(prefix) THEN 1 ELSE 0)
               /\ f.exception = (IF f.rc # 0 THEN TypeError(f.message) ELSE NoException)
               /\ f.rc = 0 =>
                    /\ f.callbackPosition = c - 1
                    /\ f.maxtime = f.args[1]
                    /\ c <= 2 => f.maxmemfrac = maxmemfrac_default
                    /\ c > 2 => f.maxmemfrac = (IF LeqZero(f.args[2])
                                                THEN maxmemfrac_default ELSE f.args[2])
                    /\ c <= 3 => f.maxmem = maxmem_default
                    /\ c > 3 => \E build \in Builds : f.maxmem = MaxmemOf(f.args[3], build)
               /\ Dispatched(f) =>
                    /\ f.returned = Undefined
                    /\ InlinePicks(i) = {}
                    /\ f.baton \in DOMAIN batons
                    /\ batons[f.baton].callback = f.args[c].m
                    /\ batons[f.baton].maxtime = f.maxtime
                    /\ batons[f.baton].maxmemfrac = f.maxmemfrac
                    /\ batons[f.baton].maxmem = f.maxmem
                    /\ \A k \in DOMAIN cbLog : cbLog[k].fn = f.args[c].m

C7_Witness ==
    \E i \in DOMAIN calls :
        /\ calls[i].args = << Num(3, 0), Fn(1), Str, Fn(2) >>
        /\ calls[i].pc = "done"
        /\ Len(cbLog) = 1
        /\ cbLog[1].fn = 1

(***************************************************************************)
(* C8.  A list with no callable whose first three arguments are valid is   *)
(* accepted whatever stands after them: extra arguments of any type are    *)
(* not validated, the call is synchronous, and its request and result are  *)
(* those of the first three arguments alone.                               *)
(***************************************************************************)
C8_ExtraArgumentsIgnored ==
    \A i \in DOMAIN calls :
        LET f == calls[i]
            first3 == SubSeq(f.args, 1, 3)
        IN  (Len(f.args) > 3 /\ ValidSync(f.args) /\ f.pc # "validate")
            => /\ f.rc = 0
               /\ f.callbackPosition = -1
               /\ \E build \in Builds :
                    Locals(f) = ValidateArguments(first3, Locals(Frame(first3)), build)
               /\ f.maxtime = f.args[1]
               /\ f.maxmemfrac = (IF LeqZero(f.args[2])
                                  THEN maxmemfrac_default ELSE f.args[2])
               /\ f.baton = 0 /\ batons = <<>>
               /\ f.pc \in {"return", "done"} =>
                    /\ Cardinality(InlinePicks(i)) = 1
                    /\ \A n \in InlinePicks(i) :
                        LET q == pickLog[n]
                        IN  /\ q.maxtime = f.maxtime
                            /\ q.maxmemfrac = f.maxmemfrac
                            /\ q.maxmem = f.maxmem
                            /\ f.exception.message.code = q.out.result
                            /\ q.out.result = 0 =>
                                    f.returned = [ k |-> "object", N |-> q.out.N,
                                                   r |-> q.out.r, p |-> q.out.p ]

C8_Witness ==
    \E i \in DOMAIN calls :
        /\ calls[i].pc = "done"
        /\ Len(calls[i].args) > 3
        /\ ValidSync(calls[i].args)
        /\ calls[i].args[4] = Str
        /\ calls[i].returned.k = "object"

(***************************************************************************)
(* C9.  An empty argument list, and a list whose first argument is a       *)
(* callable, whatever follows it, fail validation: the call throws, is     *)
(* never taken for an asynchronous one, makes no work unit, and neither a  *)
(* callback nor pickparams is ever called.                                 *)
(***************************************************************************)
C9_NoMaxtime ==
    \A i \in DOMAIN calls :
        LET f == calls[i]
        IN  ((Len(f.args) = 0 \/ IsFunction(f.args[1])) /\ f.pc # "validate")
            => /\ f.rc # 0
               /\ f.pc \in {"return", "done"}
               /\ f.exception.type = "TypeError"
               /\ f.callbackPosition = -1
               /\ f.baton = 0
               /\ batons = <<>>
               /\ cbLog = <<>>
               /\ pickLog = <<>>

C9_Witness ==
    /\ \E i \in DOMAIN calls :
        /\ calls[i].pc = "done"
        /\ Len(calls[i].args) = 3
        /\ IsFunction(calls[i].args[1])
        /\ IsNumber(calls[i].args[2])
        /\ IsFunction(calls[i].args[3])
        /\ calls[i].exception.type = "TypeError"

(***************************************************************************)
(* The state of a request, read off the frame of its call and libuv's     *)
(* view of its work request: 0 Received, 1 Classified, 2 Queued,           *)
(* 3 Executing, 4 Completed, 5 Delivered (asynchronous), 9 Delivered or    *)
(* Failed inside the call (validation failure, synchronous result).        *)
(***************************************************************************)
RequestState(f, u) ==
    CASE f.pc = "validate" -> 0
      [] f.rc # 0 -> 9
      [] f.pc = "dispatch" -> 1
      [] f.callbackPosition = -1 -> 9
      [] OTHER -> CASE u[f.baton] = "queued" -> 2
                    [] u[f.baton] = "executing" -> 3
                    [] u[f.baton] = "done" -> 4
                    [] OTHER -> 5

\* the moves of the state machine
Successors(state) ==
    CASE state = 0 -> {0, 1, 9}
      [] state = 1 -> {1, 2, 9}
      [] state \in 2..4 -> {state, state + 1}
      [] OTHER -> {state}

Mode(f) ==
    IF ~Validated(f) THEN "none"
    ELSE IF f.callbackPosition = -1 THEN "Sync" ELSE "Async"

\* in one state: a synchronous request has no work unit and has its result
\* (one inline call of pickparams, a structure or an exception) before the
\* call returns; every work unit belongs to one asynchronous request; a work
\* unit's callback has been called only if ParamsWork has returned for it
C10_StateOK ==
    /\ \A i \in DOMAIN calls :
        LET f == calls[i]
        IN  /\ Mode(f) = "Sync" =>
                /\ f.baton = 0
                /\ FirstCallable(f.args) = 0
                /\ f.pc \in {"return", "done"} =>
                    /\ Cardinality(InlinePicks(i)) = 1
                    /\ f.returned.k = "object" \/ f.exception # NoException
            /\ Mode(f) = "Async" =>
                /\ FirstCallable(f.args) # 0
                /\ InlinePicks(i) = {}
                /\ f.pc \in {"return", "done"} => f.baton \in DOMAIN batons
            /\ Mode(f) = "none" => f.baton = 0 /\ InlinePicks(i) = {}
    /\ \A b \in DOMAIN batons :
        /\ Cardinality({ i \in DOMAIN calls : calls[i].baton = b }) = 1
        /\ Mode(calls[CallOf(b)]) = "Async"
        /\ WorkerPicks(b) # {} <=> uv[b] \in {"done", "released"}
        /\ Invocations(b) # {} <=> uv[b] = "released"

\* in one step: no frame disappears, a request moves along the state machine
\* only, a mode once chosen stays, and a callback is called for a work unit
\* only when ParamsWork had returned for it before the step
C10_StepOK ==
    /\ \A i \in DOMAIN calls :
        /\ i \in DOMAIN calls'
        /\ RequestState(calls'[i], uv') \in Successors(RequestState(calls[i], uv))
        /\ Mode(calls[i]) # "none" => Mode(calls'[i]) = Mode(calls[i])
    /\ \A b \in DOMAIN batons :
        { k \in DOMAIN cbLog' : cbLog'[k].baton = b } # Invocations(b)
            => uv[b] = "done" /\ WorkerPicks(b) # {}

(***************************************************************************)
(* C10.  Every request follows Received -> Classified -> (asynchronous     *)
(* only: Queued -> Executing -> Completed) -> Delivered or Failed and      *)
(* never goes back; its mode is chosen once and kept; a synchronous        *)
(* request makes no work unit and is finished inside the call; for an      *)
(* asynchronous one ParamsWork has returned before ParamsAsyncAfter        *)
(* starts.                                                                 *)
(***************************************************************************)
C10_StateMachine == [](C10_StateOK) /\ [][C10_StepOK]_vars

C10_Witness ==
    /\ \E i \in DOMAIN calls :
        RequestState(calls[i], uv) = 5
    /\ \E i \in DOMAIN calls :
        /\ Mode(calls[i]) = "Sync"
        /\ calls[i].pc = "done"
        /\ calls[i].returned.k = "object"

(***************************************************************************)
(* Observations on the work units.                                         *)
(***************************************************************************)
\* libuv's view of a work request only moves forward, one stage at a time
UvStage(u) ==
    CASE u = "queued" -> 1 [] u = "executing" -> 2 [] u = "done" -> 3
      [] u = "released" -> 4 [] OTHER -> 0

\* the work unit has been handed to its callback and released
Delivered(b) ==
    /\ uv[b] = "released"
    /\ batons[b].disposed /\ batons[b].freed
    /\ Cardinality(Invocations(b)) = 1
    /\ Cardinality(WorkerPicks(b)) = 1
    /\ \A k \in Invocations(b) : \A n \in WorkerPicks(b) :
            cbLog[k].argv = Encoded(pickLog[n].out)

\* no step takes a work request out of the queue or back: from queued it
\* goes to executing, to done, to released, and nowhere else
C11_NoCancellation ==
    \A b \in DOMAIN uv :
        /\ b \in DOMAIN uv'
        /\ UvStage(uv[b]) >= 1
        /\ UvStage(uv'[b]) \in {UvStage(uv[b]), UvStage(uv[b]) + 1}
        /\ UvStage(uv'[b]) <= 4

\* from some point on every work unit there is has been delivered
C11_AllDelivered == <>[](\A b \in DOMAIN batons : Delivered(b))

(***************************************************************************)
(* C11.  A queued request is never cancelled, and when the thread pool     *)
(* and the event loop are scheduled fairly it is eventually delivered:     *)
(* its callback has been called once, with the result or with the error    *)
(* pickparams reported, and the work unit has been released.  Checked      *)
(* with several requests in flight together.                               *)
(***************************************************************************)
C11_EventuallyDelivered == [][C11_NoCancellation]_vars /\ C11_AllDelivered

C11_Witness ==
    /\ Len(batons) = 2
    /\ Delivered(1) /\ Delivered(2)
    /\ cbLog[1].baton = 2
    /\ batons[1].result = 0 /\ batons[2].result # 0

\* the heap objects of a work unit, and the accesses that end an object's life
HeapObjects == {"baton", "callback", "req"}
IsRelease(a) == a.op \in {"delete", "Dispose"}

\* the places in work unit b's accesses where obj is released, where the
\* callback is called, and the objects of b allocated and not yet released
Releases(b, obj) ==
    { k \in DOMAIN heap[b] : IsRelease(heap[b][k]) /\ heap[b][k].obj = obj }
CallsOfCallback(b) == { k \in DOMAIN heap[b] : heap[b][k].op = "call" }
Allocated(b) ==
    { obj \in HeapObjects :
        /\ \E k \in DOMAIN heap[b] : heap[b][k] = Access("Params", "new", obj)
        /\ Releases(b, obj) = {} }

(***************************************************************************)
(* C12.  Of every work unit the Baton, the Persistent callback handle and  *)
(* the uv_work_t are each released at most once, by the completion step,   *)
(* after the call of the callback with nothing but releases and the read   *)
(* of baton->callback that Dispose needs in between; no object is          *)
(* accessed after its release (reading baton->callback counts as an        *)
(* access to the Baton); a released work unit has all three released       *)
(* exactly once, whether pickparams succeeded or failed and whether the    *)
(* callback raised; and when every work unit is released nothing remains   *)
(* allocated.                                                              *)
(***************************************************************************)
C12_ReleasedOnce ==
    /\ DOMAIN heap = DOMAIN batons
    /\ \A b \in DOMAIN heap :
        LET h == heap[b]
            released == { k \in DOMAIN h : IsRelease(h[k]) }
            called == CallsOfCallback(b)
            allocated == Allocated(b)
            invoked == Invocations(b)
        IN  /\ \A k \in released :
                /\ h[k].ctx = "ParamsAsyncAfter"
                /\ \A j \in released : j # k => h[j].obj # h[k].obj
                /\ \E c \in called :
                    /\ c < k
                    /\ \A j \in (c + 1)..(k - 1) :
                            \/ IsRelease(h[j])
                            \/ /\ h[j] = Access("ParamsAsyncAfter", "read", "baton")
                               /\ h[j + 1].op = "Dispose"
                /\ \A j \in (k + 1)..Len(h) : h[j].obj # h[k].obj
                /\ h[k].obj = "baton" =>
                        \A j \in (k + 1)..Len(h) : h[j].obj # "callback"
            /\ Cardinality(called) = Cardinality(invoked)
            /\ invoked = {} => allocated = HeapObjects /\ released = {}
            /\ invoked # {} =>
                    /\ uv[b] = "released"
                    /\ allocated = {}
                    /\ { h[k].obj : k \in released } = HeapObjects
                    /\ batons[b].disposed /\ batons[b].freed
            /\ uv[b] = "released" => invoked # {}
    /\ (\A b \in DOMAIN uv : uv[b] = "released")
            => \A b \in DOMAIN heap : Allocated(b) = {}

C12_Witness ==
    \E b1, b2 \in DOMAIN batons :
        /\ uv[b1] = "released" /\ uv[b2] = "released"
        /\ batons[b1].result # 0 /\ batons[b2].result = 0
        /\ \E k \in Invocations(b1) : cbLog[k].raised
        /\ \E k \in Invocations(b2) : ~cbLog[k].raised
        /\ Allocated(b1) = {} /\ Allocated(b2) = {}

\* the reports made to node::FatalException for work unit b, and the calls
\* of its callback that raised
FatalReports(b) == { k \in DOMAIN fatalLog : fatalLog[k].baton = b }
Raised(b) == { k \in Invocations(b) : cbLog[k].raised }

\* in one state: a work unit has one report if its callback raised and none
\* otherwise; its callback was called once all the same; the call that
\* queued it has thrown nothing, and pickparams was called once for it
C13_StateOK ==
    /\ \A b \in DOMAIN batons :
        /\ Cardinality(FatalReports(b)) = Cardinality(Raised(b))
        /\ Cardinality(Invocations(b)) <= 1
        /\ Raised(b) # {} =>
                /\ calls[CallOf(b)].exception = NoException
                /\ calls[CallOf(b)].returned = Undefined
                /\ calls[CallOf(b)].pc = "done"
                /\ Cardinality(WorkerPicks(b)) = 1
                /\ InlinePicks(CallOf(b)) = {}
                /\ uv[b] = "released"
    /\ \A k \in DOMAIN fatalLog : fatalLog[k].baton \in DOMAIN batons

\* in one step: the step in which a callback raises adds one report, leaves
\* every frame of Params and every call of pickparams as they were, and
\* leaves every other work unit where it was; no other step adds a report
C13_StepOK ==
    IF Len(cbLog') > Len(cbLog) /\ cbLog'[Len(cbLog')].raised
    THEN LET b == cbLog'[Len(cbLog')].baton
         IN  /\ Len(cbLog') = Len(cbLog) + 1
             /\ fatalLog' = Append(fatalLog, [baton |-> b])
             /\ calls' = calls /\ main' = main
             /\ pickLog' = pickLog /\ inflight' = inflight
             /\ \A o \in DOMAIN batons \ {b} :
                    /\ batons'[o] = batons[o]
                    /\ uv'[o] = uv[o]
                    /\ heap'[o] = heap[o]
    ELSE fatalLog' = fatalLog

\* after a callback has raised, every work unit there is gets delivered
C13_OthersComplete ==
    (\E k \in DOMAIN cbLog : cbLog[k].raised)
        ~> (\A b \in DOMAIN batons : Delivered(b))

(***************************************************************************)
(* C13.  When the callback raises inside the completion step, the          *)
(* exception is reported to node::FatalException exactly once; it reaches  *)
(* neither the call of Params that queued the request, nor                 *)
(* ValidateArguments, nor pickparams; the callback is not called again;    *)
(* and the other requests in flight are delivered as usual.                *)
(***************************************************************************)
C13_CallbackRaises ==
    [](C13_StateOK) /\ [][C13_StepOK]_vars /\ C13_OthersComplete

C13_Witness ==
    /\ Len(cbLog) = 2 /\ Len(fatalLog) = 1
    /\ cbLog[1].raised /\ ~cbLog[2].raised
    /\ cbLog[1].baton # cbLog[2].baton
    /\ fatalLog[1].baton = cbLog[1].baton
    /\ Delivered(cbLog[2].baton)
    /\ uv[cbLog[2].baton] = "released"

\* the order in which the three functions come to a work unit
ContextRank(ctx) ==
    CASE ctx = "Params" -> 1 [] ctx = "ParamsWork" -> 2 [] OTHER -> 3

\* the function that may touch a work unit, by libuv's view of its request
Owner(u) ==
    CASE u \in {"queued", "executing"} -> "ParamsWork"
      [] u = "done" -> "ParamsAsyncAfter"
      [] OTHER -> "none"

\* the outcome fields of a Baton
Outcome(baton) ==
    [result |-> baton.result, N |-> baton.N, r |-> baton.r, p |-> baton.p]

\* in one state: the accesses to a work unit are those of Params, then those
\* of ParamsWork, then those of ParamsAsyncAfter, never mixed; Params has
\* made none since it queued the unit; ParamsAsyncAfter has made none
\* unless ParamsWork had written the outcome before
C14_StateOK ==
    \A b \in DOMAIN heap :
        LET h == heap[b]
        IN  /\ \A k \in 1..(Len(h) - 1) :
                    ContextRank(h[k].ctx) <= ContextRank(h[k + 1].ctx)
            /\ SubSeq(h, 1, Len(ParamsAccesses)) = ParamsAccesses
            /\ \A k \in (Len(ParamsAccesses) + 1)..Len(h) : h[k].ctx # "Params"
            /\ uv[b] = "queued" => \A k \in DOMAIN h : h[k].ctx = "Params"
            /\ uv[b] = "executing" => \A k \in DOMAIN h : h[k].ctx # "ParamsAsyncAfter"
            /\ \A k \in DOMAIN h : h[k].ctx = "ParamsAsyncAfter" =>
                    \E j \in 1..(k - 1) : h[j] = Access("ParamsWork", "write", "baton")

\* in one step: a work unit that exists is accessed only by the function
\* that owns it then (the worker while the request is queued or executing,
\* the completion step once it is done, nobody once it is released), at
\* most one work unit already there is accessed, and the outcome fields
\* change only in the step in which ParamsWork returns
C14_StepOK ==
    /\ \A b \in DOMAIN heap :
        /\ b \in DOMAIN heap'
        /\ Len(heap'[b]) >= Len(heap[b])
        /\ SubSeq(heap'[b], 1, Len(heap[b])) = heap[b]
        /\ \A k \in (Len(heap[b]) + 1)..Len(heap'[b]) :
                heap'[b][k].ctx = Owner(uv[b])
        /\ Outcome(batons'[b]) # Outcome(batons[b])
                => uv[b] = "executing" /\ uv'[b] = "done"
    /\ Cardinality({ b \in DOMAIN heap : heap'[b] # heap[b] }) <= 1
    /\ \A b \in DOMAIN heap' \ DOMAIN heap :
            \A k \in DOMAIN heap'[b] : heap'[b][k].ctx = "Params"

(***************************************************************************)
(* C14.  A work unit is touched by one function at a time: by Params       *)
(* until it is queued and never after, then by ParamsWork, which alone     *)
(* writes result, N, r and p, then by ParamsAsyncAfter, which reads them   *)
(* only after ParamsWork has returned; no step accesses a work unit that   *)
(* another function owns at that moment.                                   *)
(***************************************************************************)
C14_OneContextAtATime == [](C14_StateOK) /\ [][C14_StepOK]_vars

\* a worker is inside pickparams for a work unit whose call of Params has
\* not returned yet, while the other work unit awaits its completion step
C14_Witness ==
    /\ main # 0
    /\ calls[main].pc = "return"
    /\ calls[main].baton = 2
    /\ uv[2] = "executing"
    /\ uv[1] = "done"

\* the request fields and the callback of a Baton, and the request a call of
\* Params holds after its validation
Request(x) == [maxmem |-> x.maxmem, maxmemfrac |-> x.maxmemfrac, maxtime |-> x.maxtime]

\* in one state: a Baton holds the callback and the request its call of
\* Params put there, and what ParamsWork passed to pickparams is that request
C15_StateOK ==
    /\ \A b \in DOMAIN batons :
        LET f == calls[CallOf(b)]
        IN  /\ Request(batons[b]) = Request(f)
            /\ batons[b].callback = f.args[f.callbackPosition + 1].m
            /\ uv[b] = "queued" => Outcome(batons[b]) = [result |-> 0, N |-> 0, r |-> 0, p |-> 0]
            /\ uv[b] # "queued" => inflight[b] = Request(f)
    /\ \A n \in DOMAIN pickLog :
        pickLog[n].by = "ParamsWork" =>
            Request(pickLog[n]) = Request(calls[CallOf(pickLog[n].baton)])

\* in one step of ParamsWork (the request goes from queued to executing or
\* from executing to done): of the Baton only result, N, r and p may change;
\* the frames of Params, the loop thread, the callbacks called, the reports
\* and every other work unit stay as they were
C15_StepOK ==
    \A b \in DOMAIN batons :
        (uv[b] \in {"queued", "executing"} /\ uv'[b] # uv[b]) =>
            /\ Request(batons'[b]) = Request(batons[b])
            /\ batons'[b].callback = batons[b].callback
            /\ batons'[b].disposed = batons[b].disposed
            /\ batons'[b].freed = batons[b].freed
            /\ uv[b] = "queued" => batons'[b] = batons[b]
            /\ calls' = calls /\ main' = main
            /\ cbLog' = cbLog /\ fatalLog' = fatalLog
            /\ \A o \in DOMAIN batons \ {b} :
                    batons'[o] = batons[o] /\ uv'[o] = uv[o] /\ inflight'[o] = inflight[o]

(***************************************************************************)
(* C15.  ParamsWork changes only result, N, r and p of its Baton: the      *)
(* callback, maxtime, maxmemfrac and maxmem of the Baton, the frames of    *)
(* Params, and everything the JavaScript caller can see stay as they       *)
(* were, and pickparams receives the request the validation produced       *)
(* when the call was made.                                                 *)
(***************************************************************************)
C15_WorkFrame == [](C15_StateOK) /\ [][C15_StepOK]_vars

C15_Witness ==
    \E n \in DOMAIN pickLog :
        /\ pickLog[n].by = "ParamsWork"
        /\ pickLog[n].out.result = 0
        /\ Request(pickLog[n]) =
                [maxmem |-> 3, maxmemfrac |-> Num(1, -1), maxtime |-> Num(1, -1)]
        /\ batons[pickLog[n].baton].N = pickLog[n].out.N
        /\ batons[pickLog[n].baton].callback = 2
        /\ uv[pickLog[n].baton] = "done"

\* the requests the validation can make of an argument list
RequestsOf(args) ==
    { Request(ValidateArguments(args, Locals(Frame(args)), build)) : build \in Builds }

(***************************************************************************)
(* C16.  With several asynchronous requests in flight, in whatever order   *)
(* their work and completion steps run, the callback called for a work     *)
(* unit is the callable of the call that made it, and it is called with    *)
(* the outcome of the one call of pickparams that was given the request    *)
(* validated from that call's own arguments.                               *)
(***************************************************************************)
C16_Independent ==
    /\ \A n \in DOMAIN pickLog :
        pickLog[n].by = "ParamsWork" =>
            LET f == calls[CallOf(pickLog[n].baton)]
            IN  /\ Request(pickLog[n]) \in RequestsOf(f.args)
                /\ Request(pickLog[n]) = Request(f)
                /\ Outcome(batons[pickLog[n].baton]) = pickLog[n].out
    /\ \A k \in DOMAIN cbLog :
        LET b == cbLog[k].baton
            f == calls[CallOf(b)]
        IN  /\ FirstCallable(f.args) # 0
            /\ cbLog[k].fn = f.args[FirstCallable(f.args)].m
            /\ Cardinality(WorkerPicks(b)) = 1
            /\ \A n \in WorkerPicks(b) : cbLog[k].argv = Encoded(pickLog[n].out)
            /\ \A j \in DOMAIN cbLog : j # k => cbLog[j].baton # b

\* two requests in flight together, worked and completed in the order
\* opposite to that of their calls, with different callables, requests and
\* outcomes
C16_Witness ==
    /\ Len(pickLog) = 2 /\ Len(cbLog) = 2
    /\ pickLog[1].baton = 2 /\ pickLog[2].baton = 1
    /\ cbLog[1].baton = 2 /\ cbLog[2].baton = 1
    /\ cbLog[1].fn # cbLog[2].fn
    /\ Request(pickLog[1]) # Request(pickLog[2])
    /\ pickLog[1].out # pickLog[2].out
    /\ pickLog[1].out.result = 0 /\ pickLog[2].out.result = 0

\* the call a call of pickparams was made for
PickCall(q) == IF q.call # 0 THEN q.call ELSE CallOf(q.baton)

\* pickparams is called at most once for a call of Params: never for a
\* call that has not passed validation; once, inline, by the time a
\* validated call without a callable has been dispatched; for a validated
\* call with a callable never inline, at most once on a worker thread and
\* once by the time the work is done; and not again after an error
C17_OncePerRequest ==
    \A i \in DOMAIN calls :
        LET f == calls[i]
            picks == { n \in DOMAIN pickLog : PickCall(pickLog[n]) = i }
        IN  /\ Cardinality(picks) <= 1
            /\ ~Validated(f) => picks = {}
            /\ (Dispatched(f) /\ f.callbackPosition = -1) =>
                    Cardinality(InlinePicks(i)) = 1
            /\ (Dispatched(f) /\ f.callbackPosition # -1) =>
                    /\ InlinePicks(i) = {}
                    /\ uv[f.baton] \in {"queued", "executing"} => picks = {}
                    /\ uv[f.baton] \in {"done", "released"} => Cardinality(picks) = 1

\* every call of pickparams is given maxtime > 0, maxmemfrac > 0, maxmem >= 0
C17_Populated ==
    \A n \in DOMAIN pickLog :
        /\ GtZero(pickLog[n].maxtime)
        /\ GtZero(pickLog[n].maxmemfrac)
        /\ pickLog[n].maxmem >= 0

(***************************************************************************)
(* C17.  pickparams is called at most once per request, exactly once for   *)
(* a request that passes validation and never again after an error, and    *)
(* every call of it is given maxtime > 0, maxmemfrac > 0 and maxmem >= 0.  *)
(***************************************************************************)
C17_AsStated == C17_OncePerRequest /\ C17_Populated

\* params(NaN): the validation has passed and pickparams has been called
\* with maxtime = NaN
C17_Witness ==
    \E n \in DOMAIN pickLog :
        /\ calls[PickCall(pickLog[n])].args = << NaN >>
        /\ calls[PickCall(pickLog[n])].rc = 0
        /\ pickLog[n].maxtime = NaN
        /\ ~GtZero(pickLog[n].maxtime)

\* a JavaScript number that is a whole number >= 0, and whether a size_t
\* holds its value.  maxmem comes out of an int (line 118), so it is at
\* most INT_MAX and never holds m * 2^31 for m >= 1.
IsWholeNonNegative(d) == d.k = "number" /\ d.m >= 0 /\ d.e \in {0, 31}
SizeHolds(n, d) ==
    IF d.m = 0 THEN n = 0
    ELSE IF d.e = 0 THEN n = d.m
    ELSE FALSE

(***************************************************************************)
(* C18.  Every whole maxmem >= 0 given by the caller, values of 2^31 and   *)
(* above included, is what pickparams receives as maxmem; the default 0    *)
(* takes its place only when maxmem is absent or negative.                 *)
(***************************************************************************)
C18_AsStated ==
    \A n \in DOMAIN pickLog :
        LET q == pickLog[n]
            args == calls[PickCall(q)].args
        IN  (Positional(args) >= 3 /\ IsWholeNonNegative(args[3]))
                => SizeHolds(q.maxmem, args[3])

\* params(maxtime, maxmemfrac, 2^31): pickparams has been called with the
\* default 0 in one build and with INT_MAX in the other
C18_Witness ==
    \E n \in DOMAIN pickLog :
        /\ Positional(calls[PickCall(pickLog[n])].args) >= 3
        /\ calls[PickCall(pickLog[n])].args[3] = Num(1, 31)
        /\ pickLog[n].maxmem \in {maxmem_default, IntMax}

\* the same for the values an int holds: they reach pickparams unchanged
C18_WithinInt ==
    \A n \in DOMAIN pickLog :
        LET q == pickLog[n]
            args == calls[PickCall(q)].args
        IN  (Positional(args) >= 3 /\ IsWholeNonNegative(args[3]) /\ args[3].e = 0)
                => q.maxmem = args[3].m

====
